---- MODULE Spec2Model ----
(***************************************************************************)
(* The stateful request layer of babelfont-fontc-build (src/lib.rs): the   *)
(* single-slot font cache FONT_CACHE behind a std::sync::Mutex, and the    *)
(* five exported operations compile_babelfont, store_font,                 *)
(* clear_font_cache, interpolate_glyph and compile_cached_font.            *)
(*                                                                         *)
(* Every exported call is a frame on the stack of the host thread that     *)
(* made it.  A frame advances in steps; the steps are cut where another    *)
(* call can interleave: at the mutex, and at the js_sys::Reflect::get      *)
(* reads of the options payload, where an accessor property of the payload *)
(* runs host code that may call back into the module on the same thread.   *)
(***************************************************************************)
EXTENDS Integers, Sequences, FiniteSets, TLC

\* ------------------------------------------------------------------ bounds
MaxCalls == 3      \* exported calls made by the host in one behaviour
MaxDepth == 2      \* nesting depth of calls on one host thread
MaxItems == 2      \* elements of a subset_glyphs array

Threads == {"t1", "t2"}

\* ------------------------------------------------------------ font values
\* Option<babelfont::Font> is a set with at most one element.
None == {}
Some(v) == {v}
Unwrap(o) == CHOOSE v \in o : TRUE

Texts == {"T1", "T2", "bad"}

\* serde_json::from_str::<babelfont::Font>: None stands for Err.
ParseFont(text) ==
    CASE text = "T1" -> Some([name |-> "T1", glyphs |-> {"A", "B"}])
      [] text = "T2" -> Some([name |-> "T2", glyphs |-> {}])
      [] OTHER -> None

\* font.clone()
FontClone(font) == font

\* ---------------------------------------------------------------- JsValue
FlagKeys == {"skip_kerning", "skip_features", "skip_metrics", "skip_outlines",
             "dont_use_production_names"}
Keys == FlagKeys \cup {"subset_glyphs", "unknown_key"}

\* A JavaScript value: k is its type ("true"/"false" are the two booleans,
\* "absent" a missing property, "throws" an accessor property that throws);
\* items are the elements of an array.
JsVal(k) == [k |-> k, items |-> <<>>]
JsArray(items) == [k |-> "array", items |-> items]
JsStr(s) == [isString |-> TRUE, s |-> s]
JsNum(s) == [isString |-> FALSE, s |-> s]

NoProps == [key \in Keys |-> JsVal("absent")]
\* An options payload: kind is "undefined", "null", "number" or "object";
\* getters says that its properties are accessors running host code.
Payload(kind, getters, props) == [kind |-> kind, getters |-> getters, props |-> props]
PUndefined == Payload("undefined", FALSE, NoProps)

\* js_sys::Reflect::get(target, key): Err when the target is not an object
\* (TypeError) or the accessor throws; undefined for a missing property.
Reflect_get(target, key) ==
    IF target.kind # "object" THEN [ok |-> FALSE, val |-> JsVal("undefined")]
    ELSE LET p == target.props[key] IN
         IF p.k = "throws" THEN [ok |-> FALSE, val |-> JsVal("undefined")]
         ELSE IF p.k = "absent" THEN [ok |-> TRUE, val |-> JsVal("undefined")]
         ELSE [ok |-> TRUE, val |-> p]

from_bool(b) == IF b THEN JsVal("true") ELSE JsVal("false")

\* Mutant: the value's truthiness taken instead of as_bool().
get_option_Truthy(options, key, default) ==
    IF options.kind \in {"undefined", "null"} THEN default
    ELSE LET r == Reflect_get(options, key)
             v == IF r.ok THEN r.val ELSE from_bool(default)
         IN  v.k \in {"true", "number", "string", "array"}

get_option(options, key, default) ==
    IF options.kind \in {"undefined", "null"} THEN default
    ELSE LET r == Reflect_get(options, key)
             v == IF r.ok THEN r.val ELSE from_bool(default)
         IN  IF v.k = "true" THEN TRUE
             ELSE IF v.k = "false" THEN FALSE
             ELSE default

\* array.iter().filter_map(|v| v.as_string()).collect()
RECURSIVE filter_map_as_string(_)
filter_map_as_string(items) ==
    IF items = <<>> THEN <<>>
    ELSE (IF Head(items).isString THEN <<Head(items).s>> ELSE <<>>)
         \o filter_map_as_string(Tail(items))

\* Mutant: array.iter().rev(), which collects the names back to front.
subset_glyphs_Reversed(options) ==
    IF options.kind \in {"undefined", "null"} THEN <<>>
    ELSE LET r == Reflect_get(options, "subset_glyphs") IN
         IF ~r.ok THEN <<>>
         ELSE IF r.val.k \in {"undefined", "null"} THEN <<>>
         ELSE IF r.val.k # "array" THEN <<>>
         ELSE LET names == filter_map_as_string(r.val.items)
              IN  [i \in 1..Len(names) |-> names[Len(names) + 1 - i]]

\* The glyph list read from the payload's subset_glyphs; <<>> when the payload
\* or the value is undefined/null, the read fails, or the value is no array.
subset_glyphs(options) ==
    IF options.kind \in {"undefined", "null"} THEN <<>>
    ELSE LET r == Reflect_get(options, "subset_glyphs") IN
         IF ~r.ok THEN <<>>
         ELSE IF r.val.k \in {"undefined", "null"} THEN <<>>
         ELSE IF r.val.k # "array" THEN <<>>
         ELSE filter_map_as_string(r.val.items)

Range(s) == {s[i] : i \in 1..Len(s)}

\* ----------------------------------------------------------- collaborators
\* babelfont::filters::RetainGlyphs::new(names).apply(&mut font): None stands
\* for Err (a named glyph the font does not have).
RetainGlyphs_apply(font, names) ==
    IF Range(names) \subseteq font.glyphs
    THEN Some([font EXCEPT !.glyphs = @ \cap Range(names)])
    ELSE None

NoOptions == [key \in FlagKeys |-> FALSE]
NoLoc == [json |-> FALSE, map |-> {}]

\* The result an operation reports to the host.
Res(kind) ==
    [kind |-> kind, font |-> None, options |-> NoOptions, glyph |-> "", loc |-> {},
     diag |-> ""]
NoRes == Res("none")

\* BabelfontIrSource::compile(font, options): the bytes are determined by the
\* font and the options; a font without glyphs does not compile.
BabelfontIrSource_compile(font, options) ==
    IF font.glyphs = {} THEN Res("CompilationError")
    ELSE [Res("Ok") EXCEPT !.font = Some(font), !.options = options]

\* A write_fonts::types::Tag: its four bytes.
Tag(raw) == [raw |-> raw]

\* write_fonts::types::Tag::from_str(tag_str): one to four bytes, padded with
\* spaces to four; None stands for Err.
Tag_from_str(tag_str) ==
    IF Len(tag_str) \in 1..4
    THEN Some(Tag(CASE Len(tag_str) = 1 -> tag_str \o "   "
                    [] Len(tag_str) = 2 -> tag_str \o "  "
                    [] Len(tag_str) = 3 -> tag_str \o " "
                    [] OTHER -> tag_str))
    ELSE None

\* tag.to_string(): the four bytes as text.
Tag_to_string(tag) == tag.raw

\* font.interpolate_glyph(glyph_name, &design_location): the layer is
\* determined by the font, the glyph and the location; None stands for Err (a
\* glyph the font does not have).
Font_interpolate_glyph(font, glyph_name, design_location) ==
    IF glyph_name \notin font.glyphs THEN None
    ELSE Some([font |-> font, glyph |-> glyph_name, loc |-> design_location])

\* serde_json::to_string(&layer): the text is determined by the layer; None
\* stands for Err (here the layers of glyph B cannot be written).
serde_json_to_string(layer) ==
    IF layer.glyph = "B" THEN None
    ELSE Some([Res("Ok") EXCEPT !.font = Some(layer.font), !.glyph = layer.glyph,
                                !.loc = layer.loc])

\* One invocation of a collaborator by a call: the filter ("subset") with the
\* font and the glyph names it got, the compiler ("compile"), the engine
\* ("engine") with its location, the serializer ("serialize").
Invoke(call, font, names, loc) ==
    [call |-> call, font |-> font, names |-> names, loc |-> loc]

\* ------------------------------------------------------------------ inputs
PSubsetA == Payload("object", FALSE,
    [NoProps EXCEPT !["subset_glyphs"] = JsArray(<<JsStr("A")>>)])
PSubsetC == Payload("object", FALSE,
    [NoProps EXCEPT !["subset_glyphs"] = JsArray(<<JsStr("C")>>),
                    !["skip_kerning"] = JsVal("true")])
PGetters == Payload("object", TRUE,
    [NoProps EXCEPT !["subset_glyphs"] = JsArray(<<JsStr("A"), JsNum("7")>>),
                    !["skip_features"] = JsVal("true"),
                    !["skip_metrics"] = JsVal("number")])
Payloads == {PUndefined, PSubsetA, PSubsetC, PGetters}

\* A location_json text: json says whether it decodes as a string-to-number
\* mapping, map is that mapping as a set of <<key, value>> pairs.
LocWght == [json |-> TRUE, map |-> {<<"wght", 400>>}]
LocBadTag == [json |-> TRUE, map |-> {<<"wghtx", 400>>}]
LocBadJson == [json |-> FALSE, map |-> {}]
Locations == {LocWght, LocBadTag, LocBadJson}
GlyphNames == {"A", "B", "C"}

\* The payload as the reads of one step see it: the accessors in threw throw.
WithThrows(options, threw) ==
    [options EXCEPT !.props = [key \in Keys |->
        IF key \in threw THEN JsVal("throws") ELSE options.props[key]]]

\* ------------------------------------------------------------------- state
VARIABLES
    cache,        \* FONT_CACHE's contents: Option<Font>
    locked,       \* FONT_CACHE's mutex is held
    poisoned,     \* FONT_CACHE's mutex is poisoned
    stack,        \* per host thread, the frames of its calls in flight
    ncalls,       \* exported calls made so far
    lastStored,   \* history: what the last store_font/clear_font_cache wrote
    broken        \* history: a call aborted while it held the mutex

vars == <<cache, locked, poisoned, stack, ncalls, lastStored, broken>>

Frame(op, pc, text, options, glyph, loc) ==
    [op |-> op, pc |-> pc, text |-> text, options |-> options, glyph |-> glyph,
     loc |-> loc,
     font |-> None,     \* the call's local font (parsed, cloned, or passed on)
     seen |-> None,     \* history: the slot's contents at the NotCached check
     res |-> NoRes,     \* the result reported to the host
     ran |-> <<>>,      \* history: the collaborators invoked, in order
     threw |-> {}]      \* payload accessors whose host code threw

Depth(t) == Len(stack[t])
Top(t) == stack[t][Depth(t)]
At(t, op, pc) == Depth(t) > 0 /\ Top(t).op = op /\ Top(t).pc = pc
SetTop(t, f) == stack' = [stack EXCEPT ![t] = [@ EXCEPT ![Depth(t)] = f]]
Finish(f, res) == [f EXCEPT !.pc = "done", !.res = res, !.threw = {}]

\* The frame holds the MutexGuard on FONT_CACHE.
Holding(f) ==
    \/ f.op \in {"store_font", "clear_font_cache"} /\ f.pc = "write"
    \/ f.op = "interpolate_glyph" /\ f.pc \in {"check", "engine"}
    \/ f.op = "compile_cached_font" /\ f.pc \in {"check", "clone", "gate", "resolve"}

FrameIds == {<<t, d>> \in Threads \X (1..MaxDepth) : d <= Depth(t)}
Holders == {id \in FrameIds : Holding(stack[id[1]][id[2]])}

\* The top frame is inside a Reflect::get of a payload whose properties are
\* accessors: host code runs and may call an exported function.
InHostCallback(t) ==
    /\ Depth(t) > 0
    /\ Top(t).op \in {"compile_babelfont", "compile_cached_font"}
    /\ Top(t).pc \in {"gate", "resolve"}
    /\ Top(t).options.kind = "object"
    /\ Top(t).options.getters

Init ==
    /\ cache = None
    /\ locked = FALSE
    /\ poisoned = FALSE
    /\ stack = [t \in Threads |-> <<>>]
    /\ ncalls = 0
    /\ lastStored = None
    /\ broken = FALSE

\* The host calls an exported function: from the top level of a thread, or
\* from an accessor of the payload the thread's running call is reading.
CanCall(t) ==
    /\ ncalls < MaxCalls
    /\ Depth(t) < MaxDepth
    /\ Depth(t) = 0 \/ InHostCallback(t)

Push(t, f) ==
    /\ stack' = [stack EXCEPT ![t] = Append(@, f)]
    /\ ncalls' = ncalls + 1
    /\ UNCHANGED <<cache, locked, poisoned, lastStored, broken>>

CallCompileBabelfont(t) ==
    /\ CanCall(t)
    /\ \E text \in Texts, options \in Payloads :
          Push(t, Frame("compile_babelfont", "parse", text, options, "", NoLoc))

CallStoreFont(t) ==
    /\ CanCall(t)
    /\ \E text \in Texts :
          Push(t, Frame("store_font", "parse", text, PUndefined, "", NoLoc))

CallClearFontCache(t) ==
    /\ CanCall(t)
    /\ Push(t, Frame("clear_font_cache", "lock", "", PUndefined, "", NoLoc))

CallInterpolateGlyph(t) ==
    /\ CanCall(t)
    /\ \E glyph \in GlyphNames, loc \in Locations :
          Push(t, Frame("interpolate_glyph", "lock", "", PUndefined, glyph, loc))

CallCompileCachedFont(t) ==
    /\ CanCall(t)
    /\ \E options \in Payloads :
          Push(t, Frame("compile_cached_font", "lock", "", options, "", NoLoc))

\* The call returns to the host.  When it aborted inside an accessor of the
\* caller's payload, the trap surfaces as that accessor throwing.
Return(t) ==
    /\ Depth(t) > 0
    /\ Top(t).pc = "done"
    /\ LET d == Depth(t)
           popped == SubSeq(stack[t], 1, d - 1)
       IN  IF d > 1 /\ Top(t).res.kind = "Aborted"
           THEN \E key \in (IF stack[t][d - 1].pc = "gate"
                            THEN {"subset_glyphs"} ELSE FlagKeys) :
                  stack' = [stack EXCEPT ![t] =
                      [popped EXCEPT ![d - 1].threw = @ \cup {key}]]
           ELSE stack' = [stack EXCEPT ![t] = popped]
    /\ UNCHANGED <<cache, locked, poisoned, ncalls, lastStored, broken>>

\* ------------------------------------------------------------ the mutex
\* Mutant: lock() that does not wait for the guard to be dropped.
MutexFree_Always == TRUE

\* FONT_CACHE.lock() returns only when no guard is out.
MutexFree == ~locked

AfterLock(op) ==
    IF op \in {"store_font", "clear_font_cache"} THEN "write" ELSE "check"

AtLock(t) == Depth(t) > 0 /\ Top(t).pc = "lock"

\* FONT_CACHE.lock().unwrap(): the guard is taken.
LockAcquire(t) ==
    /\ AtLock(t)
    /\ MutexFree
    /\ ~poisoned
    /\ locked' = TRUE
    /\ SetTop(t, [Top(t) EXCEPT !.pc = AfterLock(Top(t).op)])
    /\ UNCHANGED <<cache, poisoned, ncalls, lastStored, broken>>

\* Mutant: lock().unwrap_or_else(|e| e.into_inner()), which takes the guard
\* of a poisoned mutex.
LockPoisoned_Recovers(t) ==
    /\ AtLock(t)
    /\ MutexFree
    /\ poisoned
    /\ locked' = TRUE
    /\ SetTop(t, [Top(t) EXCEPT !.pc = AfterLock(Top(t).op)])
    /\ UNCHANGED <<cache, poisoned, ncalls, lastStored, broken>>

\* FONT_CACHE.lock().unwrap() on a poisoned mutex: lock() is Err, unwrap()
\* panics, and the guard inside the error is dropped again.
LockPoisoned(t) ==
    /\ AtLock(t)
    /\ MutexFree
    /\ poisoned
    /\ SetTop(t, Finish(Top(t), Res("Aborted")))
    /\ UNCHANGED <<cache, locked, poisoned, ncalls, lastStored, broken>>

\* FONT_CACHE.lock() while the guard is out and no other thread will drop
\* it (a frame below on the same thread has it, or its holder aborted): the
\* call never returns.  std leaves open whether it panics (this action, the
\* mutex of a build without threads) or blocks for ever (no step).
LockRecursive(t) ==
    /\ AtLock(t)
    /\ locked
    /\ \A id \in Holders : id[1] = t
    /\ SetTop(t, Finish(Top(t), Res("Aborted")))
    /\ UNCHANGED <<cache, locked, poisoned, ncalls, lastStored, broken>>

\* A panic below a frame that holds the guard: with unwinding the guard is
\* dropped and poisons the mutex; with panic=abort the guard is never
\* dropped and the mutex stays locked.
AbortHolding(t) ==
    /\ \E unwound \in BOOLEAN :
          IF unwound THEN locked' = FALSE /\ poisoned' = TRUE
          ELSE UNCHANGED <<locked, poisoned>>
    /\ broken' = TRUE
    /\ SetTop(t, Finish(Top(t), Res("Aborted")))
    /\ UNCHANGED <<cache, ncalls, lastStored>>

\* -------------------------------------------------------- compile_babelfont
\* Mutant: the filter applied without the !names.is_empty() test.
compile_babelfont_subset_NoEmptyTest(font, options) ==
    LET names == subset_glyphs(options) IN
    [font |-> RetainGlyphs_apply(font, names),
     ran |-> <<Invoke("subset", font, names, {})>>]

compile_babelfont_subset(font, options) ==
    LET names == subset_glyphs(options) IN
    IF names # <<>>
    THEN [font |-> RetainGlyphs_apply(font, names),
          ran |-> <<Invoke("subset", font, names, {})>>]
    ELSE [font |-> Some(font), ran |-> <<>>]

compile_babelfont_options(options) ==
    [key \in FlagKeys |-> get_option(options, key, FALSE)]

\* Mutant: the parsed font also written to FONT_CACHE.
CbParse_CachesFont(t) ==
    /\ At(t, "compile_babelfont", "parse")
    /\ LET font == ParseFont(Top(t).text) IN
       IF font = None
       THEN cache' = cache /\ SetTop(t, Finish(Top(t), Res("ParseError")))
       ELSE cache' = font /\ SetTop(t, [Top(t) EXCEPT !.pc = "gate", !.font = font])
    /\ UNCHANGED <<locked, poisoned, ncalls, lastStored, broken>>

CbParse(t) ==
    /\ At(t, "compile_babelfont", "parse")
    /\ LET font == ParseFont(Top(t).text) IN
       IF font = None THEN SetTop(t, Finish(Top(t), Res("ParseError")))
       ELSE SetTop(t, [Top(t) EXCEPT !.pc = "gate", !.font = font])
    /\ UNCHANGED <<cache, locked, poisoned, ncalls, lastStored, broken>>

CbGate(t) ==
    /\ At(t, "compile_babelfont", "gate")
    /\ LET f == Top(t)
           gate == compile_babelfont_subset(Unwrap(f.font), WithThrows(f.options, f.threw))
           g == [f EXCEPT !.ran = @ \o gate.ran]
       IN  IF gate.font = None THEN SetTop(t, Finish(g, Res("SubsetError")))
           ELSE SetTop(t, [g EXCEPT !.pc = "resolve", !.font = gate.font, !.threw = {}])
    /\ UNCHANGED <<cache, locked, poisoned, ncalls, lastStored, broken>>

CbCompile(t) ==
    /\ At(t, "compile_babelfont", "resolve")
    /\ LET f == Top(t)
           options == compile_babelfont_options(WithThrows(f.options, f.threw))
       IN  SetTop(t, Finish([f EXCEPT !.ran = Append(@,
                                Invoke("compile", Unwrap(f.font), <<>>, {}))],
                            BabelfontIrSource_compile(Unwrap(f.font), options)))
    /\ UNCHANGED <<cache, locked, poisoned, ncalls, lastStored, broken>>

\* --------------------------------------------------------------- store_font
\* Mutant: the slot emptied when the text does not parse.
SfParse_ClearsOnError(t) ==
    /\ At(t, "store_font", "parse")
    /\ LET font == ParseFont(Top(t).text) IN
       IF font = None
       THEN cache' = None /\ SetTop(t, Finish(Top(t), Res("ParseError")))
       ELSE cache' = cache /\ SetTop(t, [Top(t) EXCEPT !.pc = "lock", !.font = font])
    /\ UNCHANGED <<locked, poisoned, ncalls, lastStored, broken>>

SfParse(t) ==
    /\ At(t, "store_font", "parse")
    /\ LET font == ParseFont(Top(t).text) IN
       IF font = None THEN SetTop(t, Finish(Top(t), Res("ParseError")))
       ELSE SetTop(t, [Top(t) EXCEPT !.pc = "lock", !.font = font])
    /\ UNCHANGED <<cache, locked, poisoned, ncalls, lastStored, broken>>

\* Mutant: cache.get_or_insert(font), which keeps a font already held.
SfWrite_KeepsOld(t) ==
    /\ At(t, "store_font", "write")
    /\ cache' = IF cache = None THEN Top(t).font ELSE cache
    /\ lastStored' = ParseFont(Top(t).text)
    /\ locked' = FALSE
    /\ SetTop(t, Finish(Top(t), Res("Ok")))
    /\ UNCHANGED <<poisoned, ncalls, broken>>

\* *cache = Some(font); Ok(()) and the guard is dropped.
SfWrite(t) ==
    /\ At(t, "store_font", "write")
    /\ cache' = Top(t).font
    /\ lastStored' = ParseFont(Top(t).text)
    /\ locked' = FALSE
    /\ SetTop(t, Finish(Top(t), Res("Ok")))
    /\ UNCHANGED <<poisoned, ncalls, broken>>

\* --------------------------------------------------------- clear_font_cache
\* Mutant: the guard taken and dropped without the write.
ClWrite_KeepsFont(t) ==
    /\ At(t, "clear_font_cache", "write")
    /\ locked' = FALSE
    /\ SetTop(t, Finish(Top(t), Res("Ok")))
    /\ UNCHANGED <<cache, lastStored, poisoned, ncalls, broken>>

\* *cache = None; and the guard is dropped.
ClWrite(t) ==
    /\ At(t, "clear_font_cache", "write")
    /\ cache' = None
    /\ lastStored' = None
    /\ locked' = FALSE
    /\ SetTop(t, Finish(Top(t), Res("Ok")))
    /\ UNCHANGED <<poisoned, ncalls, broken>>

\* -------------------------------------------------------- interpolate_glyph
\* Mutant: the guard scoped to the NotCached check and dropped after it.
IgCheck_DropsGuard(t) ==
    /\ At(t, "interpolate_glyph", "check")
    /\ locked' = FALSE
    /\ IF cache = None
       THEN SetTop(t, Finish(Top(t), Res("NotCached")))
       ELSE SetTop(t, [Top(t) EXCEPT !.pc = "engine", !.seen = cache])
    /\ UNCHANGED <<cache, poisoned, ncalls, lastStored, broken>>

\* Mutant: location_json decoded before the NotCached check.
IgCheck_ParsesFirst(t) ==
    /\ At(t, "interpolate_glyph", "check")
    /\ IF ~Top(t).loc.json
       THEN locked' = FALSE /\ SetTop(t, Finish(Top(t), Res("LocationParseError")))
       ELSE IF cache = None
       THEN locked' = FALSE /\ SetTop(t, Finish(Top(t), Res("NotCached")))
       ELSE locked' = locked /\ SetTop(t, [Top(t) EXCEPT !.pc = "engine", !.seen = cache])
    /\ UNCHANGED <<cache, poisoned, ncalls, lastStored, broken>>

\* cache.as_ref().ok_or_else(..)?
IgCheck(t) ==
    /\ At(t, "interpolate_glyph", "check")
    /\ IF cache = None
       THEN locked' = FALSE /\ SetTop(t, Finish(Top(t), Res("NotCached")))
       ELSE locked' = locked /\ SetTop(t, [Top(t) EXCEPT !.pc = "engine", !.seen = cache])
    /\ UNCHANGED <<cache, poisoned, ncalls, lastStored, broken>>

\* Mutant: .into_iter().take(1).collect(), which keeps one decoded pair.
design_locations_TakeOne(location_map) ==
    LET pairs == {<<Unwrap(Tag_from_str(e[1])), e[2]>> : e \in location_map}
    IN  {m \in SUBSET pairs : Cardinality(m) = (IF pairs = {} THEN 0 ELSE 1)}

\* .into_iter().collect() of the decoded (tag, value) pairs into the
\* DesignLocation, a map: one value for each tag; of the entries whose keys
\* decode to the same tag the one the HashMap yields last stays.
design_locations(location_map) ==
    LET pairs == {<<Unwrap(Tag_from_str(e[1])), e[2]>> : e \in location_map}
    IN  {m \in SUBSET pairs :
            \A p \in pairs : Cardinality({q \in m : q[1] = p[1]}) = 1}

\* The engine and the serializer on a design location.
interpolate_glyph_engine(font, glyph_name, design_location) ==
    LET layer == Font_interpolate_glyph(font, glyph_name, design_location)
        engine == <<Invoke("engine", font, <<>>, design_location)>>
    IN  IF layer = None THEN [res |-> Res("InterpolationError"), ran |-> engine]
        ELSE LET json == serde_json_to_string(Unwrap(layer))
                 both == Append(engine, Invoke("serialize", font, <<>>, design_location))
             IN  IF json = None THEN [res |-> Res("SerializationError"), ran |-> both]
                 ELSE [res |-> Unwrap(json), ran |-> both]

\* Mutant: filter_map(|(tag_str, value)| Tag::from_str(tag_str).ok()...), which
\* drops the entries whose keys do not decode.
interpolate_glyph_results_DropsBadTags(font, glyph_name, location_json) ==
    IF ~location_json.json THEN {[res |-> Res("LocationParseError"), ran |-> <<>>]}
    ELSE LET location_map == {e \in location_json.map : Tag_from_str(e[1]) # None}
         IN  {interpolate_glyph_engine(font, glyph_name, design_location) :
                 design_location \in design_locations(location_map)}

\* The results of the rest of interpolate_glyph on the font the reference
\* points to: location parse, tag decoding, engine, serialization.  The
\* HashMap yields its entries in an order of its own: any key the decoder
\* rejects can be the first one met.
interpolate_glyph_results(font, glyph_name, location_json) ==
    IF ~location_json.json THEN {[res |-> Res("LocationParseError"), ran |-> <<>>]}
    ELSE LET location_map == location_json.map
             invalid == {e \in location_map : Tag_from_str(e[1]) = None}
         IN  IF invalid # {}
             THEN {[res |-> [Res("InvalidTag") EXCEPT !.diag = e[1]], ran |-> <<>>] :
                      e \in invalid}
             ELSE {interpolate_glyph_engine(font, glyph_name, design_location) :
                      design_location \in design_locations(location_map)}

\* Mutant: the guard leaked (mem::forget) on the error returns.
IgEngine_LeaksGuardOnError(t) ==
    /\ At(t, "interpolate_glyph", "engine")
    /\ \E r \in interpolate_glyph_results(Unwrap(cache), Top(t).glyph, Top(t).loc) :
          /\ SetTop(t, Finish([Top(t) EXCEPT !.font = cache, !.ran = r.ran], r.res))
          /\ locked' = (r.res.kind # "Ok")
    /\ UNCHANGED <<cache, poisoned, ncalls, lastStored, broken>>

IgEngine(t) ==
    /\ At(t, "interpolate_glyph", "engine")
    /\ \E r \in interpolate_glyph_results(Unwrap(cache), Top(t).glyph, Top(t).loc) :
          SetTop(t, Finish([Top(t) EXCEPT !.font = cache, !.ran = r.ran], r.res))
    /\ locked' = FALSE
    /\ UNCHANGED <<cache, poisoned, ncalls, lastStored, broken>>

\* font.interpolate_glyph panics: only a call that gets to the engine.
IgAbort(t) ==
    /\ At(t, "interpolate_glyph", "engine")
    /\ \E r \in interpolate_glyph_results(Unwrap(cache), Top(t).glyph, Top(t).loc) :
          r.ran # <<>>
    /\ AbortHolding(t)

\* ------------------------------------------------------ compile_cached_font
\* Mutant: let _ = filter.apply(&mut font_clone), which goes on to compile
\* the clone when the filter fails.
compile_cached_font_subset_IgnoresError(font_clone, options) ==
    LET names == subset_glyphs(options)
        applied == RetainGlyphs_apply(font_clone, names)
    IN  IF names # <<>>
        THEN [font |-> IF applied = None THEN Some(font_clone) ELSE applied,
              ran |-> <<Invoke("subset", font_clone, names, {})>>]
        ELSE [font |-> Some(font_clone), ran |-> <<>>]

compile_cached_font_subset(font_clone, options) ==
    LET names == subset_glyphs(options) IN
    IF names # <<>>
    THEN [font |-> RetainGlyphs_apply(font_clone, names),
          ran |-> <<Invoke("subset", font_clone, names, {})>>]
    ELSE [font |-> Some(font_clone), ran |-> <<>>]

\* Mutant: get_option(options, key, true).
compile_cached_font_options_DefaultTrue(options) ==
    [key \in FlagKeys |-> get_option(options, key, TRUE)]

compile_cached_font_options(options) ==
    [key \in FlagKeys |-> get_option(options, key, FALSE)]

\* Mutant: the guard leaked (mem::forget) on the NotCached return.
CcCheck_LeaksGuard(t) ==
    /\ At(t, "compile_cached_font", "check")
    /\ IF cache = None
       THEN SetTop(t, Finish(Top(t), Res("NotCached")))
       ELSE SetTop(t, [Top(t) EXCEPT !.pc = "clone", !.seen = cache])
    /\ UNCHANGED <<cache, locked, poisoned, ncalls, lastStored, broken>>

\* Mutant: cache.as_ref().unwrap_or(&default) instead of the NotCached return.
CcCheck_NoNotCached(t) ==
    /\ At(t, "compile_cached_font", "check")
    /\ SetTop(t, [Top(t) EXCEPT !.pc = "clone", !.seen = cache])
    /\ UNCHANGED <<cache, locked, poisoned, ncalls, lastStored, broken>>

CcCheck(t) ==
    /\ At(t, "compile_cached_font", "check")
    /\ IF cache = None
       THEN locked' = FALSE /\ SetTop(t, Finish(Top(t), Res("NotCached")))
       ELSE locked' = locked /\ SetTop(t, [Top(t) EXCEPT !.pc = "clone", !.seen = cache])
    /\ UNCHANGED <<cache, poisoned, ncalls, lastStored, broken>>

\* let mut font_clone = font.clone();
CcClone(t) ==
    /\ At(t, "compile_cached_font", "clone")
    /\ SetTop(t, [Top(t) EXCEPT !.pc = "gate", !.font = Some(FontClone(Unwrap(cache)))])
    /\ UNCHANGED <<cache, locked, poisoned, ncalls, lastStored, broken>>

\* Mutant: the filter applied to the cached font itself, not to the clone.
CcGate_InPlace(t) ==
    /\ At(t, "compile_cached_font", "gate")
    /\ LET f == Top(t)
           gate == compile_cached_font_subset(Unwrap(f.font), WithThrows(f.options, f.threw))
           g == [f EXCEPT !.ran = @ \o gate.ran]
       IN  IF gate.font = None
           THEN locked' = FALSE /\ cache' = cache
                /\ SetTop(t, Finish(g, Res("SubsetError")))
           ELSE locked' = locked /\ cache' = gate.font
                /\ SetTop(t, [g EXCEPT !.pc = "resolve", !.font = gate.font, !.threw = {}])
    /\ UNCHANGED <<poisoned, ncalls, lastStored, broken>>

CcGate(t) ==
    /\ At(t, "compile_cached_font", "gate")
    /\ LET f == Top(t)
           gate == compile_cached_font_subset(Unwrap(f.font), WithThrows(f.options, f.threw))
           g == [f EXCEPT !.ran = @ \o gate.ran]
       IN  IF gate.font = None
           THEN locked' = FALSE /\ SetTop(t, Finish(g, Res("SubsetError")))
           ELSE locked' = locked
                /\ SetTop(t, [g EXCEPT !.pc = "resolve", !.font = gate.font, !.threw = {}])
    /\ UNCHANGED <<cache, poisoned, ncalls, lastStored, broken>>

CcCompile(t) ==
    /\ At(t, "compile_cached_font", "resolve")
    /\ LET f == Top(t)
           options == compile_cached_font_options(WithThrows(f.options, f.threw))
       IN  SetTop(t, Finish([f EXCEPT !.ran = Append(@,
                                Invoke("compile", Unwrap(f.font), <<>>, {}))],
                            BabelfontIrSource_compile(Unwrap(f.font), options)))
    /\ locked' = FALSE
    /\ UNCHANGED <<cache, poisoned, ncalls, lastStored, broken>>

\* BabelfontIrSource::compile panics.
CcAbort(t) ==
    /\ At(t, "compile_cached_font", "resolve")
    /\ AbortHolding(t)

\* ------------------------------------------------------------ specification
Progress(t) ==
    \/ LockAcquire(t) \/ LockPoisoned(t)
    \/ CbParse(t) \/ CbGate(t) \/ CbCompile(t)
    \/ SfParse(t) \/ SfWrite(t)
    \/ ClWrite(t)
    \/ IgCheck(t) \/ IgEngine(t)
    \/ CcCheck(t) \/ CcClone(t) \/ CcGate(t) \/ CcCompile(t)
    \/ Return(t)

Next ==
    \E t \in Threads :
        \/ CallCompileBabelfont(t) \/ CallStoreFont(t) \/ CallClearFontCache(t)
        \/ CallInterpolateGlyph(t) \/ CallCompileCachedFont(t)
        \/ Progress(t)
        \/ LockRecursive(t)
        \/ IgAbort(t) \/ CcAbort(t)

Spec == Init /\ [][Next]_vars

\* The same machine under fewer inputs, for the properties of progress: one
\* text that parses and one that does not, no payload or a payload of
\* accessors, one glyph, a location that decodes and one that does not.
LiveTexts == {"T1", "bad"}
LivePayloads == {PUndefined, PGetters}
LiveLocations == {LocWght, LocBadJson}

LiveCall(t) ==
    /\ CanCall(t)
    /\ \/ \E text \in LiveTexts, options \in LivePayloads :
             Push(t, Frame("compile_babelfont", "parse", text, options, "", NoLoc))
       \/ \E text \in LiveTexts :
             Push(t, Frame("store_font", "parse", text, PUndefined, "", NoLoc))
       \/ Push(t, Frame("clear_font_cache", "lock", "", PUndefined, "", NoLoc))
       \/ \E loc \in LiveLocations :
             Push(t, Frame("interpolate_glyph", "lock", "", PUndefined, "A", loc))
       \/ \E options \in LivePayloads :
             Push(t, Frame("compile_cached_font", "lock", "", options, "", NoLoc))

LiveNext ==
    \E t \in Threads :
        \/ LiveCall(t)
        \/ Progress(t)
        \/ LockRecursive(t)
        \/ IgAbort(t) \/ CcAbort(t)

\* Host threads are scheduled, and a call that can take its next step takes
\* it; the host is free to make no further call, nothing makes a blocked
\* lock() panic, and no collaborator has to panic.
FairSpec == Init /\ [][LiveNext]_vars /\ \A t \in Threads : WF_vars(Progress(t))

\* -------------------------------------------------- the location alone
\* The location_json texts a host can pass: a text that is no string-to-number
\* mapping, and every mapping over two four-byte keys, a two-byte key, the
\* same key padded by the host, a five-byte key and the empty key.
LocKeys == {"wght", "wdth", "ww", "ww  ", "wghtx", ""}
LocValues == {400, 700}
LocMaps ==
    {m \in SUBSET (LocKeys \X LocValues) :
        \A key \in LocKeys : Cardinality({e \in m : e[1] = key}) <= 1}
IgLocations == {LocBadJson} \cup {[json |-> TRUE, map |-> m] : m \in LocMaps}

LocCall(t) ==
    /\ CanCall(t)
    /\ \/ \E text \in Texts :
             Push(t, Frame("store_font", "parse", text, PUndefined, "", NoLoc))
       \/ Push(t, Frame("clear_font_cache", "lock", "", PUndefined, "", NoLoc))
       \/ \E glyph \in GlyphNames, loc \in IgLocations :
             Push(t, Frame("interpolate_glyph", "lock", "", PUndefined, glyph, loc))

\* One host thread storing, clearing and interpolating at every location.
LocNext ==
    \/ LocCall("t1")
    \/ LockAcquire("t1") \/ LockPoisoned("t1") \/ LockRecursive("t1")
    \/ SfParse("t1") \/ SfWrite("t1") \/ ClWrite("t1")
    \/ IgCheck("t1") \/ IgEngine("t1") \/ IgAbort("t1")
    \/ Return("t1")

LocSpec == Init /\ [][LocNext]_vars

\* ------------------------------------------------- the subset gate alone
\* The values of subset_glyphs a host can pass: none, undefined, null, values
\* that are no array, an accessor that throws, and every array of up to
\* MaxItems elements that are glyph names the font has or has not, or numbers.
GateItems == {JsStr("A"), JsStr("B"), JsStr("C"), JsNum("7")}
GateArrays == UNION {[1..n -> GateItems] : n \in 0..MaxItems}
GateValues ==
    {JsVal("absent"), JsVal("undefined"), JsVal("null"), JsVal("number"),
     JsVal("string"), JsVal("true"), JsVal("throws")}
    \cup {JsArray(items) : items \in GateArrays}
GatePayloads ==
    {PUndefined, Payload("null", FALSE, NoProps), Payload("number", FALSE, NoProps)}
    \cup {Payload("object", FALSE,
              [NoProps EXCEPT !["subset_glyphs"] = subset, !["skip_kerning"] = flag]) :
            subset \in GateValues, flag \in {JsVal("absent"), JsVal("true")}}

GateCall(t) ==
    /\ CanCall(t)
    /\ \/ \E text \in Texts :
             Push(t, Frame("store_font", "parse", text, PUndefined, "", NoLoc))
       \/ \E text \in Texts, options \in GatePayloads :
             Push(t, Frame("compile_babelfont", "parse", text, options, "", NoLoc))
       \/ \E options \in GatePayloads :
             Push(t, Frame("compile_cached_font", "lock", "", options, "", NoLoc))

\* One host thread storing and compiling under every value of subset_glyphs.
GateNext ==
    \/ GateCall("t1")
    \/ LockAcquire("t1") \/ LockPoisoned("t1") \/ LockRecursive("t1")
    \/ SfParse("t1") \/ SfWrite("t1")
    \/ CbParse("t1") \/ CbGate("t1") \/ CbCompile("t1")
    \/ CcCheck("t1") \/ CcClone("t1") \/ CcGate("t1") \/ CcCompile("t1")
    \/ CcAbort("t1")
    \/ Return("t1")

GateSpec == Init /\ [][GateNext]_vars

\* ------------------------------------------------ option resolution alone
\* The options payloads a host can pass: no payload, null, a value that is no
\* object, and every object whose five flags and one unknown key are each
\* missing, a boolean, a value of another type or an accessor that throws.
OptValues == {JsVal("absent"), JsVal("true"), JsVal("false"), JsVal("number"),
              JsVal("throws")}
OptPayloads ==
    {PUndefined, Payload("null", FALSE, NoProps), Payload("number", FALSE, NoProps)}
    \cup {Payload("object", FALSE,
              [key \in Keys |-> IF key \in FlagKeys THEN flags[key]
                                ELSE IF key = "unknown_key" THEN unknown
                                ELSE JsVal("absent")]) :
            flags \in [FlagKeys -> OptValues],
            unknown \in {JsVal("absent"), JsVal("true")}}

OptCall(t) ==
    /\ CanCall(t)
    /\ \E options \in OptPayloads :
          Push(t, Frame("compile_babelfont", "parse", "T1", options, "", NoLoc))

\* One host thread compiling one text under every payload.
OptNext ==
    \/ OptCall("t1")
    \/ CbParse("t1") \/ CbGate("t1") \/ CbCompile("t1")
    \/ Return("t1")

OptSpec == Init /\ [][OptNext]_vars

\* ------------------------------------------------------------------ claims
Frames == {stack[id[1]][id[2]] : id \in FrameIds}
Done(f) == f.pc = "done"
Absent(options) == options.kind \in {"undefined", "null"}

\* C1: a step of a compile_cached_font call never changes the cache slot,
\* whatever its payload and whether it ends in bytes, SubsetError or
\* CompilationError; while the call holds the slot the slot holds the font
\* it found there.
C1_CompileCachedKeepsCache ==
    /\ [](\A f \in Frames :
            f.op = "compile_cached_font" /\ Holding(f) /\ f.pc # "check"
                => cache = f.seen)
    /\ [][\A id \in FrameIds :
            LET t == id[1]
                d == id[2]
                f == stack[t][d]
            IN  (/\ f.op = "compile_cached_font"
                 /\ ~Done(f)
                 /\ Len(stack'[t]) >= d
                 /\ stack'[t][d] # f)
                => cache' = cache]_vars

\* C1 witness: a subsetted compile_cached_font has returned bytes of a
\* narrowed font and the slot still holds the full font.
C1_Witness ==
    \E f \in Frames :
        /\ f.op = "compile_cached_font" /\ Done(f) /\ f.res.kind = "Ok"
        /\ subset_glyphs(f.options) # <<>>
        /\ f.res.font # f.seen
        /\ cache = f.seen

\* C2: with an absent options payload, compile_cached_font on a slot holding
\* the font stored from text T reports the same result as compile_babelfont
\* on T.
C2_CachedEqualsOnce ==
    \A f \in Frames, g \in Frames :
        (/\ f.op = "compile_cached_font" /\ Done(f)
         /\ g.op = "compile_babelfont" /\ Done(g)
         /\ Absent(f.options) /\ f.options = g.options
         /\ f.seen # None /\ f.seen = ParseFont(g.text)
         /\ f.res.kind # "Aborted")
        => f.res = g.res

C2_Witness ==
    \E f \in Frames, g \in Frames :
        /\ f.op = "compile_cached_font" /\ Done(f)
        /\ g.op = "compile_babelfont" /\ Done(g)
        /\ Absent(f.options) /\ f.options = g.options
        /\ f.seen = ParseFont(g.text)
        /\ f.res.kind = "Ok" /\ f.res = g.res

\* C3: compile_cached_font and interpolate_glyph get past their NotCached
\* check only when the last write to the slot was a store; on an empty slot
\* (at start, or after clear_font_cache) they report NotCached and have run no
\* collaborator, and they report nothing else.
C3_EmptySlotNotCached ==
    \A f \in Frames :
        f.op \in {"compile_cached_font", "interpolate_glyph"} =>
            /\ f.pc \in {"clone", "gate", "resolve", "engine"}
                  => cache # None /\ lastStored # None
            /\ Done(f) /\ f.res.kind = "NotCached" => f.seen = None /\ f.font = None
            /\ Done(f) /\ f.res.kind \notin {"NotCached", "Aborted"} => f.seen # None
            /\ cache = None => f.res.kind # "Aborted"

C3_Witness ==
    \E f \in Frames, g \in Frames :
        /\ f.op \in {"compile_cached_font", "interpolate_glyph"}
        /\ Done(f) /\ f.res.kind = "NotCached"
        /\ g.op = "clear_font_cache" /\ Done(g) /\ g.res.kind = "Ok"
        /\ cache = None

\* C4: the slot is empty at start, holds at most one font, and always holds
\* exactly what the most recent completed write left: the font parsed from
\* the text of the last store_font, or nothing after clear_font_cache.
C4_SlotLifecycle ==
    /\ Cardinality(cache) <= 1
    /\ cache = lastStored
    /\ ncalls = 0 => cache = None

C4_Witness ==
    \E f \in Frames, g \in Frames :
        /\ f.op = "store_font" /\ Done(f) /\ f.res.kind = "Ok"
        /\ g.op = "store_font" /\ Done(g) /\ g.res.kind = "Ok"
        /\ f.text # g.text
        /\ cache = ParseFont(g.text)

\* C5: at most one call in flight holds the slot, and the mutex is locked
\* while one does; two read-only calls never hold it together.
C5_MutualExclusion ==
    /\ Cardinality(Holders) <= 1
    /\ Holders # {} => locked

C5_Witness ==
    \E a \in FrameIds, b \in FrameIds :
        /\ a[1] # b[1]
        /\ stack[a[1]][a[2]].op = "compile_cached_font" /\ a \in Holders
        /\ stack[b[1]][b[2]].op = "interpolate_glyph" /\ stack[b[1]][b[2]].pc = "lock"

\* C6: the font compile_cached_font clones and the font interpolate_glyph
\* hands to the engine is the one the slot held at the NotCached check, and
\* the slot does not change under a call that is past its check.
C6_NoMidOperationChange ==
    \A f \in Frames :
        /\ f.op = "compile_cached_font" /\ f.pc \in {"clone", "gate", "resolve"}
              => cache = f.seen
        /\ f.op = "compile_cached_font" /\ f.pc = "gate" => f.font = f.seen
        /\ f.op = "interpolate_glyph" /\ f.pc = "engine" => cache = f.seen
        /\ f.op = "interpolate_glyph" /\ Done(f) /\ f.font # None => f.font = f.seen

C6_Witness ==
    \E a \in FrameIds, b \in FrameIds :
        /\ a[1] # b[1]
        /\ stack[a[1]][a[2]].op = "interpolate_glyph"
        /\ stack[a[1]][a[2]].pc = "engine"
        /\ stack[b[1]][b[2]].op \in {"store_font", "clear_font_cache"}
        /\ stack[b[1]][b[2]].pc = "lock"
        /\ stack[b[1]][b[2]].font # stack[a[1]][a[2]].seen

AllFrameIds == Threads \X (1..MaxDepth)
InFlight(id) == id \in FrameIds /\ ~Done(stack[id[1]][id[2]])
Reported(id) ==
    id \in FrameIds /\ Done(stack[id[1]][id[2]])
                    /\ stack[id[1]][id[2]].res.kind # "Aborted"
UsesSlot(f) == f.op # "compile_babelfont"

\* A call that needs the slot was made from an accessor of the payload of a
\* call of the same thread that holds the slot.
ReentrantOnHeld ==
    \E id \in FrameIds :
        /\ UsesSlot(stack[id[1]][id[2]])
        /\ stack[id[1]][id[2]].pc = "lock"
        /\ \E d \in 1..(id[2] - 1) : Holding(stack[id[1]][d])

\* C7 as stated: unless a call aborts while it holds the slot, every call the
\* host makes, overlapping or re-entrant, reports a result in the end.
C7_EveryCallCompletes ==
    \A id \in AllFrameIds : InFlight(id) ~> (Reported(id) \/ broken)

\* C7 amended: unless a call aborts while it holds the slot, or a call that
\* needs the slot is made re-entrantly under a call that holds it, every call
\* the host makes reports a result in the end.
C7_NonReentrantCallCompletes ==
    \A id \in AllFrameIds : InFlight(id) ~> (Reported(id) \/ broken \/ ReentrantOnHeld)

\* C7 witness: a call waits at the mutex for a call of another thread.
C7_Witness ==
    \E a \in FrameIds, b \in Holders :
        /\ a[1] # b[1]
        /\ stack[a[1]][a[2]].pc = "lock"
        /\ stack[a[1]][a[2]].op = "store_font"
        /\ ~broken /\ ~ReentrantOnHeld

\* C8 as stated, of the calls the host makes from the top level of a thread:
\* a clear_font_cache call that ends has ended without error or abort, in
\* every reachable state, also after an earlier call has aborted.
C8_ClearNeverFails ==
    \A t \in Threads :
        Depth(t) >= 1 /\ stack[t][1].op = "clear_font_cache" /\ Done(stack[t][1])
            => stack[t][1].res.kind = "Ok"

\* C8 amended: clear_font_cache reports no error; it aborts, at its lock(),
\* only when an earlier call aborted while holding the slot or when it is
\* called re-entrantly under a call that holds the slot; otherwise it
\* completes, and its write leaves the slot empty.
C8_ClearFailsOnlyOnUnusableSlot ==
    /\ [](\A id \in FrameIds :
            LET f == stack[id[1]][id[2]] IN
            f.op = "clear_font_cache" /\ Done(f) =>
                /\ f.res.kind \in {"Ok", "Aborted"}
                /\ f.res.kind = "Aborted" =>
                      broken \/ \E d \in 1..(id[2] - 1) : Holding(stack[id[1]][d]))
    /\ [][\A id \in FrameIds :
            LET f == stack[id[1]][id[2]] IN
            (/\ f.op = "clear_font_cache" /\ f.pc = "write"
             /\ Len(stack'[id[1]]) >= id[2]
             /\ stack'[id[1]][id[2]].pc = "done")
            => cache' = None /\ stack'[id[1]][id[2]].res.kind = "Ok"]_vars

C8_Witness ==
    \E f \in Frames, g \in Frames :
        /\ f.op = "clear_font_cache" /\ Done(f) /\ f.res.kind = "Ok"
        /\ g.op = "store_font" /\ Done(g) /\ g.res.kind = "Ok"
        /\ cache = None /\ ~broken

\* C9: once a call has aborted while holding the slot, no call ever holds the
\* slot again, the mutex stays locked or poisoned, and the slot's contents
\* never change.
C9_AbortMakesSlotUnusable ==
    /\ [](broken => Holders = {} /\ (locked \/ poisoned))
    /\ [][broken => broken' /\ cache' = cache]_vars

\* C9 witness: after such an abort a store or clear has aborted at its lock().
C9_Witness ==
    /\ broken
    /\ \E f \in Frames :
          f.op \in {"store_font", "clear_font_cache"} /\ Done(f) /\ f.res.kind = "Aborted"

\* C10: resolution of the five flags never fails, whatever the payload: each
\* flag is the payload's value for its key when the payload is an object and
\* that value is a boolean, and false otherwise, independently of the other
\* keys; with no payload all five are false.
C10_OptionResolutionTotal ==
    \A f \in Frames :
        f.op = "compile_babelfont" /\ Done(f) =>
            /\ f.res.kind = "Ok"
            /\ \A key \in FlagKeys :
                  f.res.options[key] =
                      (f.options.kind = "object" /\ f.options.props[key].k = "true")

\* C10 witness: an object with one true flag, a wrong-typed flag, a throwing
\* accessor and an unknown key has resolved to that one flag.
C10_Witness ==
    \E f \in Frames :
        /\ f.op = "compile_babelfont" /\ Done(f)
        /\ f.options.kind = "object"
        /\ f.options.props["skip_kerning"].k = "true"
        /\ f.options.props["skip_features"].k = "number"
        /\ f.options.props["skip_metrics"].k = "throws"
        /\ f.options.props["unknown_key"].k = "true"
        /\ f.res.options = [NoOptions EXCEPT !["skip_kerning"] = TRUE]

\* The keys of a location the tag decoder rejects.
Rejected(location_json) ==
    {e[1] : e \in {x \in location_json.map : Tag_from_str(x[1]) = None}}

Compiles(f) == f.op \in {"compile_babelfont", "compile_cached_font"}
BaseFont(f) == IF f.op = "compile_babelfont" THEN ParseFont(f.text) ELSE f.seen
PastGate(f) == Done(f) /\ BaseFont(f) # None /\ f.res.kind # "Aborted"

\* The payload is absent or null, has no subset_glyphs key, has it undefined
\* or null, or has an empty list.
GateOff(options) ==
    \/ Absent(options)
    \/ /\ options.kind = "object"
       /\ \/ options.props["subset_glyphs"].k \in {"absent", "undefined", "null"}
          \/ options.props["subset_glyphs"] = JsArray(<<>>)

\* The payload without its subset_glyphs key.
WithoutSubset(options) ==
    [options EXCEPT !.props = [@ EXCEPT !["subset_glyphs"] = JsVal("absent")]]

\* C12: when the payload is absent or null, has no subset_glyphs, has it
\* undefined or null, or has an empty list, compile_babelfont and
\* compile_cached_font do not invoke the filter, hand the compiler the font
\* unchanged, and report what the compiler makes of that font under the
\* payload without subset_glyphs.
C12_GateOffCompilesWholeFont ==
    \A f \in Frames :
        Compiles(f) /\ PastGate(f) /\ GateOff(f.options) =>
            /\ f.ran = <<Invoke("compile", Unwrap(BaseFont(f)), <<>>, {})>>
            /\ f.res = BabelfontIrSource_compile(Unwrap(BaseFont(f)),
                            compile_babelfont_options(WithoutSubset(f.options)))

\* C12 witness: compile_cached_font has compiled the whole cached font under
\* a payload with an empty list and a flag.
C12_Witness ==
    \E f \in Frames :
        /\ f.op = "compile_cached_font" /\ PastGate(f)
        /\ f.options.kind = "object"
        /\ f.options.props["subset_glyphs"] = JsArray(<<>>)
        /\ f.options.props["skip_kerning"].k = "true"
        /\ f.res.kind = "Ok" /\ f.res.font = f.seen
        /\ f.res.options["skip_kerning"]

\* What compile_babelfont reports for a text when the reads of its gate see
\* the payload as gate_options and the reads of its flags see it as
\* flag_options.
compile_babelfont_result(text, gate_options, flag_options) ==
    LET font == ParseFont(text) IN
    IF font = None THEN Res("ParseError")
    ELSE LET gate == compile_babelfont_subset(Unwrap(font), gate_options) IN
         IF gate.font = None THEN Res("SubsetError")
         ELSE BabelfontIrSource_compile(Unwrap(gate.font),
                                        compile_babelfont_options(flag_options))

\* C13: no step of a compile_babelfont call changes the cache slot or its
\* mutex, whether the call ends in bytes or in an error, and what the call
\* reports is determined by its text and its payload alone (for a payload of
\* accessors: by which of them throw).
C13_CompileOnceLeavesSlotAlone ==
    /\ [](\A f \in Frames :
            f.op = "compile_babelfont" /\ Done(f) =>
                \E a \in SUBSET {"subset_glyphs"}, b \in SUBSET FlagKeys :
                    /\ ~f.options.getters => a = {} /\ b = {}
                    /\ f.res = compile_babelfont_result(f.text,
                                   WithThrows(f.options, a), WithThrows(f.options, b)))
    /\ [][\A id \in FrameIds :
            LET t == id[1]
                d == id[2]
                f == stack[t][d]
            IN  (/\ f.op = "compile_babelfont"
                 /\ ~Done(f)
                 /\ Len(stack'[t]) >= d
                 /\ stack'[t][d] # f)
                => cache' = cache /\ locked' = locked /\ poisoned' = poisoned]_vars

\* C13 witness: compile_babelfont has reported SubsetError for one text, and
\* another has returned bytes, while the slot holds the font of another text.
C13_Witness ==
    \E f \in Frames, g \in Frames :
        /\ f.op = "compile_babelfont" /\ Done(f) /\ f.res.kind = "SubsetError"
        /\ g.op = "compile_babelfont" /\ Done(g) /\ g.res.kind = "Ok"
        /\ cache # None /\ cache # ParseFont(f.text) /\ cache # ParseFont(g.text)

\* A design location read back as a mapping from tag text to value.
ReadBack(design_location) ==
    {<<Tag_to_string(p[1]), p[2]>> : p \in design_location}

\* Every key of the mapping is a four-character tag the decoder accepts.
WellFormedKeys(location_map) ==
    \A e \in location_map : Len(e[1]) = 4 /\ Tag_from_str(e[1]) # None

RanCalls(f) == [i \in 1..Len(f.ran) |-> f.ran[i].call]

\* C15: interpolate_glyph checks in a fixed order.  On an empty slot it
\* reports NotCached whatever the location; with a font cached it reports
\* LocationParseError for a text that is no mapping, else InvalidTag for a
\* rejected key, and only then invokes the engine, once, with a location built
\* from the whole decoded mapping; after the engine's error nothing is
\* serialized, and SerializationError comes only after the engine succeeded.
C15_InterpolateCheckOrder ==
    /\ [][\A id \in FrameIds :
            LET t == id[1]
                d == id[2]
                f == stack[t][d]
            IN  (/\ f.op = "interpolate_glyph" /\ f.pc = "check" /\ cache = None
                 /\ Len(stack'[t]) >= d
                 /\ stack'[t][d] # f)
                => /\ stack'[t][d].res.kind = "NotCached"
                   /\ stack'[t][d].ran = <<>>]_vars
    /\ [](\A f \in Frames :
            (f.op = "interpolate_glyph" /\ Done(f) /\ f.seen # None
                /\ f.res.kind # "Aborted") =>
                IF ~f.loc.json
                THEN f.res.kind = "LocationParseError" /\ f.ran = <<>>
                ELSE IF Rejected(f.loc) # {}
                THEN f.res.kind = "InvalidTag" /\ f.ran = <<>>
                ELSE /\ f.ran[1].call = "engine"
                     /\ f.ran[1].font = Unwrap(f.seen)
                     /\ f.ran[1].loc \in design_locations(f.loc.map)
                     /\ IF f.glyph \notin Unwrap(f.seen).glyphs
                        THEN f.res.kind = "InterpolationError"
                             /\ RanCalls(f) = <<"engine">>
                        ELSE f.res.kind \in {"Ok", "SerializationError"}
                             /\ RanCalls(f) = <<"engine", "serialize">>)

\* C15 witness: on an empty slot a call with a text that is no mapping has
\* reported NotCached.
C15_Witness ==
    \E f \in Frames :
        /\ f.op = "interpolate_glyph" /\ Done(f)
        /\ ~f.loc.json
        /\ cache = None /\ f.res.kind = "NotCached"

\* The payload's subset_glyphs is a non-empty array of strings; the strings.
ListSupplied(options) ==
    /\ options.kind = "object"
    /\ options.props["subset_glyphs"].k = "array"
    /\ options.props["subset_glyphs"].items # <<>>
    /\ \A i \in 1..Len(options.props["subset_glyphs"].items) :
          options.props["subset_glyphs"].items[i].isString
SuppliedList(options) ==
    [i \in 1..Len(options.props["subset_glyphs"].items) |->
        options.props["subset_glyphs"].items[i].s]

\* C16: in compile_babelfont and compile_cached_font the subset gate comes
\* before the compiler.  With a non-empty list supplied the filter is invoked
\* first, on the call's font with exactly that list; when it fails the call
\* reports SubsetError and the compiler is not invoked; otherwise the compiler
\* is invoked next, once, on the filtered font.  compile_cached_font on an
\* empty slot reports NotCached before any of this.
C16_GateBeforeCompiler ==
    /\ [][\A id \in FrameIds :
            LET t == id[1]
                d == id[2]
                f == stack[t][d]
            IN  (/\ f.op = "compile_cached_font" /\ f.pc = "check" /\ cache = None
                 /\ Len(stack'[t]) >= d
                 /\ stack'[t][d] # f)
                => /\ stack'[t][d].res.kind = "NotCached"
                   /\ stack'[t][d].ran = <<>>]_vars
    /\ [](\A f \in Frames :
            Compiles(f) /\ PastGate(f) /\ ListSupplied(f.options) =>
                LET base == Unwrap(BaseFont(f))
                    filtered == RetainGlyphs_apply(base, SuppliedList(f.options))
                IN  /\ f.ran[1] = Invoke("subset", base, SuppliedList(f.options), {})
                    /\ IF filtered = None
                       THEN f.res.kind = "SubsetError" /\ RanCalls(f) = <<"subset">>
                       ELSE /\ RanCalls(f) = <<"subset", "compile">>
                            /\ f.ran[2].font = Unwrap(filtered)
                            /\ f.res.kind \in {"Ok", "CompilationError"}
                            /\ f.res.kind = "Ok" => f.res.font = filtered)

\* C16 witness: compile_cached_font with a list naming a glyph the cached font
\* has and one it has not has reported SubsetError without compiling.
C16_Witness ==
    \E f \in Frames :
        /\ f.op = "compile_cached_font" /\ PastGate(f)
        /\ ListSupplied(f.options)
        /\ SuppliedList(f.options) = <<"A", "C">>
        /\ f.res.kind = "SubsetError"
        /\ RanCalls(f) = <<"subset">>

\* C17: a store_font whose text does not parse reports ParseError in its
\* first step, before it gets to the mutex: it never waits for, takes or
\* writes the slot, and the slot and its mutex are as they were.
C17_FailedStoreLeavesCache ==
    /\ [](\A f \in Frames :
            f.op = "store_font" /\ ParseFont(f.text) = None =>
                /\ f.pc \in {"parse", "done"}
                /\ Done(f) => f.res.kind = "ParseError")
    /\ [][\A id \in FrameIds :
            LET t == id[1]
                d == id[2]
                f == stack[t][d]
            IN  (/\ f.op = "store_font" /\ ParseFont(f.text) = None
                 /\ Len(stack'[t]) >= d
                 /\ stack'[t][d] # f)
                => /\ cache' = cache /\ locked' = locked /\ poisoned' = poisoned
                   /\ lastStored' = lastStored]_vars

\* C17 witness: a store_font has reported ParseError while a call of another
\* thread holds the slot with a font in it.
C17_Witness ==
    \E a \in FrameIds, b \in Holders :
        /\ a[1] # b[1]
        /\ stack[a[1]][a[2]].op = "store_font"
        /\ Done(stack[a[1]][a[2]])
        /\ stack[a[1]][a[2]].res.kind = "ParseError"
        /\ cache # None

\* The errors compile_cached_font and interpolate_glyph report.
ReportedErrors ==
    {"NotCached", "LocationParseError", "InvalidTag", "InterpolationError",
     "SerializationError", "SubsetError", "CompilationError"}

\* C18: the step in which compile_cached_font or interpolate_glyph returns a
\* reported error drops the guard and leaves the slot as the call found it:
\* the mutex is unlocked and not poisoned, no call holds the slot, and the
\* slot's contents are those the call saw at its NotCached check.
C18_ErrorReleasesSlotIntact ==
    [][\A id \in FrameIds :
          LET t == id[1]
              d == id[2]
              f == stack[t][d]
          IN  (/\ f.op \in {"compile_cached_font", "interpolate_glyph"}
               /\ ~Done(f)
               /\ Len(stack'[t]) >= d
               /\ Done(stack'[t][d])
               /\ stack'[t][d].res.kind \in ReportedErrors)
              => /\ Holding(f)
                 /\ ~locked' /\ ~poisoned' /\ ~broken'
                 /\ Holders' = {}
                 /\ cache' = cache /\ lastStored' = lastStored
                 /\ cache' = stack'[t][d].seen]_vars

\* C18 witness: after interpolate_glyph reported SerializationError, a
\* compile_cached_font of another thread has compiled the font both found in
\* the slot, which is free and still holds it.
C18_Witness ==
    \E f \in Frames, g \in Frames :
        /\ f.op = "interpolate_glyph" /\ Done(f) /\ f.res.kind = "SerializationError"
        /\ g.op = "compile_cached_font" /\ Done(g) /\ g.res.kind = "Ok"
        /\ g.seen = f.seen /\ cache = f.seen
        /\ ~locked /\ ~poisoned /\ ~broken

\* The string elements of an array, in the array's order.
IsString(v) == v.isString
StringElements(items) ==
    LET strings == SelectSeq(items, IsString)
    IN  [i \in 1..Len(strings) |-> strings[i].s]

\* C19: in compile_babelfont and compile_cached_font a malformed subset_glyphs
\* is no error.  A value that is no array is ignored; of an array only the
\* string elements count; when none remains the filter is not invoked and the
\* whole font is compiled; otherwise the filter is invoked with exactly the
\* string elements in the array's order.
C19_MalformedSubsetIgnored ==
    \A f \in Frames :
        (Compiles(f) /\ PastGate(f) /\ f.options.kind = "object") =>
            LET base == Unwrap(BaseFont(f))
                value == f.options.props["subset_glyphs"]
                names == IF value.k = "array" THEN StringElements(value.items) ELSE <<>>
            IN  IF names = <<>>
                THEN /\ f.ran = <<Invoke("compile", base, <<>>, {})>>
                     /\ f.res = BabelfontIrSource_compile(base,
                                     compile_babelfont_options(WithoutSubset(f.options)))
                ELSE /\ f.ran[1] = Invoke("subset", base, names, {})
                     /\ f.res.kind = "SubsetError"
                            <=> RetainGlyphs_apply(base, names) = None

\* C19 witness: compile_babelfont under an array of a number and the name A
\* has returned the bytes of the font narrowed to A.
C19_Witness ==
    \E f \in Frames :
        /\ f.op = "compile_babelfont" /\ PastGate(f)
        /\ f.options.kind = "object"
        /\ f.options.props["subset_glyphs"] = JsArray(<<JsNum("7"), JsStr("A")>>)
        /\ f.ran[1].names = <<"A">>
        /\ f.res.kind = "Ok" /\ Unwrap(f.res.font).glyphs = {"A"}

====
